---- MODULE Spec2Model ----
(***************************************************************************)
(* Model of process_excel_workflow (excel_workflow_script_v2.py) and of    *)
(* the call site in render_spendable_workflow (multi-workflow-app.py).     *)
(* One run of the pipeline is one behaviour: Init picks the two input      *)
(* files and the five options, and each action is one numbered step of the *)
(* function.  Data frames are records [columns, rows]; a row is a function *)
(* from column name to cell value.                                         *)
(***************************************************************************)
EXTENDS Integers, Sequences, FiniteSets, TLC

\* ---------------------------------------------------------------- bounds
MaxRows == 2        \* data rows in the raw-data file
MaxMapRows == 2     \* data rows in the location-mapping file

\* ------------------------------------------------------- missing values
\* np.nan in a numeric column (amounts are counted in thousandths, >= 0)
NaN == -1
\* NaN / None in a text column
NULL == "<NaN>"
\* None given for an integer option
NoneInt == -1

\* ------------------------------------------------------ string helpers
Digits == "0123456789"
Lower == "abcdefghijklmnopqrstuvwxyz"
Upper == "ABCDEFGHIJKLMNOPQRSTUVWXYZ"
\* characters in code-point order, as Python compares str
Alphabet == " -" \o Digits \o ":<>" \o Upper \o "_" \o Lower

CharAt(s, i) == SubSeq(s, i, i)

IndexIn(alpha, c) ==
    IF \E i \in 1..Len(alpha) : CharAt(alpha, i) = c
    THEN CHOOSE i \in 1..Len(alpha) : CharAt(alpha, i) = c
    ELSE 0

IsDigit(c) == IndexIn(Digits, c) > 0

\* str.upper() of one character
UpperChar(c) ==
    LET i == IndexIn(Lower, c) IN IF i > 0 THEN CharAt(Upper, i) ELSE c

RECURSIVE StrUpper(_)
StrUpper(s) ==
    IF Len(s) = 0 THEN ""
    ELSE StrUpper(SubSeq(s, 1, Len(s) - 1)) \o UpperChar(CharAt(s, Len(s)))

\* number of characters of the trailing digit run, the match of r'\d+$'
RECURSIVE TrailingDigits(_)
TrailingDigits(s) ==
    IF Len(s) > 0 /\ IsDigit(CharAt(s, Len(s)))
    THEN 1 + TrailingDigits(SubSeq(s, 1, Len(s) - 1))
    ELSE 0

\* str.strip()
RECURSIVE LStrip(_)
LStrip(s) ==
    IF Len(s) > 0 /\ CharAt(s, 1) = " " THEN LStrip(SubSeq(s, 2, Len(s))) ELSE s

RECURSIVE RStrip(_)
RStrip(s) ==
    IF Len(s) > 0 /\ CharAt(s, Len(s)) = " "
    THEN RStrip(SubSeq(s, 1, Len(s) - 1)) ELSE s

Strip(s) == LStrip(RStrip(s))

\* str() of a non-negative int
RECURSIVE Str(_)
Str(n) ==
    IF n < 10 THEN CharAt(Digits, n + 1)
    ELSE Str(n \div 10) \o CharAt(Digits, (n % 10) + 1)

\* a < b for Python str
RECURSIVE StrLess(_, _)
StrLess(a, b) ==
    IF Len(b) = 0 THEN FALSE
    ELSE IF Len(a) = 0 THEN TRUE
    ELSE LET x == IndexIn(Alphabet, CharAt(a, 1))
             y == IndexIn(Alphabet, CharAt(b, 1))
         IN IF x # y THEN x < y
            ELSE StrLess(SubSeq(a, 2, Len(a)), SubSeq(b, 2, Len(b)))

\* ------------------------------------------------------ sequence helpers
RECURSIVE SelectIdx(_, _, _)
\* positions i..Len(s) of s whose element satisfies the mask (a set of positions)
SelectIdx(s, mask, i) ==
    IF i > Len(s) THEN <<>>
    ELSE (IF i \in mask THEN <<s[i]>> ELSE <<>>) \o SelectIdx(s, mask, i + 1)

\* df[mask]: the rows of the frame at the masked positions, in order
Masked(s, mask) == SelectIdx(s, mask, 1)

RECURSIVE Flatten(_)
Flatten(ss) == IF Len(ss) = 0 THEN <<>> ELSE Head(ss) \o Flatten(Tail(ss))

\* a row with one more (or an overwritten) column
With(r, c, v) == [k \in DOMAIN r \cup {c} |-> IF k = c THEN v ELSE r[k]]

\* a row restricted to the given columns
Project(r, cols) == [k \in cols |-> r[k]]

Range(s) == {s[i] : i \in 1..Len(s)}

\* -------------------------------------------------- the program's tables
\* line 34-36
required_cols_raw ==
    <<"Country", "region", "Currency", "GrossFrom", "GrossTo",
      "Single", "Married", "Married1", "Married2", "Married3", "Married4", "Married5">>
required_cols_mapping == <<"Mercer Location Concatenation", "location_uuid", "location_type">>
\* line 53
id_vars == <<"Country", "region", "Currency", "GrossFrom", "GrossTo">>
\* line 56-69, in dict (insertion) order
family_status_mapping ==
    << <<"Single", "Single">>, <<"Single1", "Married">>, <<"Single2", "Married1">>,
       <<"Single3", "Married2">>, <<"Single4", "Married3">>, <<"Single5", "Married4">>,
       <<"Married", "Married">>, <<"Married1", "Married1">>, <<"Married2", "Married2">>,
       <<"Married3", "Married3">>, <<"Married4", "Married4">>, <<"Married5", "Married5">> >>
\* line 260-262
final_columns ==
    <<"locationUuid", "locationType", "grossFrom", "grossTo", "maritalStatus",
      "numberOfChildren", "cost", "currency", "serviceType", "validFromDate",
      "validToDate", "userNotes">>
\* line 275
missing_columns == <<"Country", "region", "location_key", "family_status", "cost">>

\* pd.read_csv turns an empty cell and the default NA markers into NaN
ReadCsvCell(s) == IF s \in {"", "NA", "NaN", "N/A", "NULL", "nan", "null"} THEN NULL ELSE s

\* ------------------------------------------------------------- inputs
TextCols == {"Country", "region", "Currency"}

ColNo(c) == CHOOSE i \in 1..Len(required_cols_raw) : required_cols_raw[i] = c

\* one line of the raw-data file, keyed by the plain column names
RawRow(country, region, gf, gt, money) ==
    [c \in Range(required_cols_raw) |->
        CASE c = "Country" -> country
          [] c = "region" -> region
          [] c = "Currency" -> money[1]
          [] c = "GrossFrom" -> gf
          [] c = "GrossTo" -> gt
          [] OTHER -> money[2] + ColNo(c)]

\* a csv file: readable or not, its header as written, its lines keyed by header
CsvFile(header, lines) ==
    [ok |-> TRUE, columns |-> header,
     rows |-> [i \in 1..Len(lines) |-> [c \in header |-> lines[i][Strip(c)]]]]

BadFile == [ok |-> FALSE, columns |-> {}, rows |-> <<>>]

MapRow(key, uuid, type) ==
    [c \in Range(required_cols_mapping) |->
        CASE c = "Mercer Location Concatenation" -> key
          [] c = "location_uuid" -> uuid
          [] OTHER -> type]

SeqsUpTo(S, n) == UNION {[1..k -> S] : k \in 0..n}

\* headers of the raw-data file
IdCols == Range(id_vars)
FullHeader == Range(required_cols_raw)
Padded(header, c) == (header \ {c}) \cup {" " \o c \o " "}

\* cells of the raw-data file
KeyCells == {<<"XY", "">>, <<"US", "">>, <<"US", "CA">>}
GrossCells == {<<1000, 3000>>, <<1004, 2996>>, <<NaN, 5000>>, <<2000, NaN>>}
MoneyCells == {<<"USD", 100>>, <<"EUR", 200>>}
\* lines of the location-mapping file
MapLines ==
    {MapRow("XYNA", "L1", "CITY"), MapRow("USNA", "L1", "CITY"),
     MapRow("USNA", "L2", "COUNTRY"),
     MapRow("USNA", "", "CITY")}
FullMapHeader == Range(required_cols_mapping)
GoodMap == CsvFile(FullMapHeader, <<MapRow("USNA", "L1", "CITY")>>)

Options(from, to, remove, single, married) ==
    [valid_from_date |-> from, valid_to_date |-> to, remove_min_max |-> remove,
     single_max_children |-> single, married_max_children |-> married]
DefaultOptions(remove) ==
    Options("2025-07-01T00:00:00", "2025-12-31T00:00:00", remove, NoneInt, NoneInt)

Input(raw, map, o) == [raw_data_file |-> raw, location_mapping_file |-> map, options |-> o]

\* keys against mapping tables, with and without trimming
MatchInputs ==
    {Input(CsvFile(IdCols \cup {"Single", "Married4"}, lines), CsvFile(FullMapHeader, map),
           DefaultOptions(remove)) :
        lines \in {[i \in DOMAIN ks |-> RawRow(ks[i][1], ks[i][2], 1000, 3000, <<"USD", 100>>)] :
                      ks \in SeqsUpTo(KeyCells, MaxRows)},
        map \in SeqsUpTo(MapLines, MaxMapRows),
        remove \in BOOLEAN}

\* which columns the raw-data file has
RawHeaders ==
    {FullHeader, IdCols, IdCols \cup {"Single"}, FullHeader \ {"Single"},
     Padded(FullHeader, "Married"), Padded(FullHeader, "Country")}
    \cup {FullHeader \ {c} : c \in FullHeader}
ExpandInputs ==
    {Input(CsvFile(header, lines), GoodMap, DefaultOptions(FALSE)) :
        header \in RawHeaders,
        lines \in {[i \in DOMAIN ms |-> RawRow("US", "", 1000, 3000, ms[i])] :
                      ms \in SeqsUpTo(MoneyCells, MaxRows)}}

\* amounts within location groups
TrimInputs ==
    {Input(CsvFile(header, lines), CsvFile(FullMapHeader, map), DefaultOptions(remove)) :
        header \in {IdCols \cup {"Single"}},
        lines \in {[i \in DOMAIN cs |-> RawRow(cs[i][1], "", cs[i][2][1], cs[i][2][2], <<"USD", 100>>)] :
                      cs \in SeqsUpTo({"XY", "US"} \X GrossCells, MaxRows)},
        map \in {<<MapRow("USNA", "L1", "CITY")>>,
                 <<MapRow("USNA", "L1", "CITY"), MapRow("XYNA", "L1", "CITY")>>},
        remove \in BOOLEAN}

\* the scalar options
CollapseInputs ==
    {Input(CsvFile(FullHeader, <<RawRow(k[1], k[2], 1000, 3000, <<"USD", 100>>)>>), GoodMap,
           Options(from, to, FALSE, single, married)) :
        k \in {<<"US", "">>, <<"XY", "NA">>},
        from \in {NULL, "", "2025-07-01T00:00:00"},
        to \in {NULL, "2025-12-31T00:00:00"},
        single \in {NoneInt, 1, 3, 4, 6},
        married \in {NoneInt, 3, 5}}

\* files that cannot be read, mapping files with a wrong header
MapHeaders ==
    {FullMapHeader \ {c} : c \in FullMapHeader}
    \cup {Padded(FullMapHeader, c) : c \in FullMapHeader} \cup {{}}
FailInputs ==
    {Input(raw, map, DefaultOptions(remove)) :
        raw \in {BadFile, CsvFile(FullHeader, <<RawRow("US", "", 1000, 3000, <<"USD", 100>>)>>),
                 CsvFile(IdCols, <<>>)},
        map \in {BadFile} \cup {CsvFile(h, <<MapRow("USNA", "L1", "CITY")>>) : h \in MapHeaders},
        remove \in BOOLEAN}

\* location keys of two characters and more
NotesInputs ==
    {Input(CsvFile(IdCols \cup {"Single"}, <<RawRow(k[1], k[2], 1000, 3000, <<"USD", 100>>)>>),
           CsvFile(FullMapHeader, <<MapRow("US", "L1", "CITY"), MapRow("USNA", "L2", "COUNTRY"),
                                    MapRow("USCAL", "L2", "COUNTRY")>>),
           DefaultOptions(FALSE)) :
        k \in {<<"U", "S">>, <<"U", "">>, <<"US", "">>, <<"US", "CAL">>, <<"XY", "NA">>, <<"X", "YNA">>}}

Inputs ==
    MatchInputs \cup ExpandInputs \cup TrimInputs \cup CollapseInputs \cup FailInputs
        \cup NotesInputs

\* -------------------------------------------------------------- state
VARIABLES
    pc,                    \* the step about to run
    raw_data_file, location_mapping_file, options,   \* the arguments
    raw_data, location_data,                         \* the frames read from the files
    long_data,             \* rows of the long-format frame
    merged_data,           \* rows after the left join
    xyna_records, successfully_matched, missing_locations,
    combined_for_minmax,   \* rows of step 7's working frame
    final_output,          \* rows of step 8's working frame
    result,                \* what the call produced: returned tables, None/None, or an exception
    ui                     \* what the calling page shows

vars == <<pc, raw_data_file, location_mapping_file, options, raw_data, location_data,
          long_data, merged_data, xyna_records, successfully_matched, missing_locations,
          combined_for_minmax, final_output, result, ui>>

args == <<raw_data_file, location_mapping_file, options>>

Frame(cols, rows) == [columns |-> cols, rows |-> rows]
NoFrame == Frame({}, <<>>)

\* return values
Pending == [kind |-> "pending"]
ReturnNone == [kind |-> "returned", missing_output |-> [none |-> TRUE, columns |-> <<>>, rows |-> <<>>],
               final_output |-> [none |-> TRUE, columns |-> <<>>, rows |-> <<>>]]
Raised(e) == [kind |-> "raised", exception |-> e]
Table(cols, rows) == [none |-> FALSE, columns |-> cols, rows |-> rows]
Return(missing, final) == [kind |-> "returned", missing_output |-> missing, final_output |-> final]

Init ==
    /\ \E in \in Inputs :
        /\ raw_data_file = in.raw_data_file
        /\ location_mapping_file = in.location_mapping_file
        /\ options = in.options
    /\ pc = "load"
    /\ raw_data = NoFrame
    /\ location_data = NoFrame
    /\ long_data = <<>>
    /\ merged_data = <<>>
    /\ xyna_records = <<>>
    /\ successfully_matched = <<>>
    /\ missing_locations = <<>>
    /\ combined_for_minmax = <<>>
    /\ final_output = <<>>
    /\ result = Pending
    /\ ui = "processing"

\* pd.read_csv of one file: text cells parsed, header kept as written
ReadCsv(file) ==
    Frame(file.columns,
          [i \in 1..Len(file.rows) |->
              [c \in file.columns |->
                  IF Strip(c) \in TextCols \cup Range(required_cols_mapping)
                  THEN ReadCsvCell(file.rows[i][c]) ELSE file.rows[i][c]]])

\* Step 1, lines 21-30
LoadFiles ==
    /\ pc = "load"
    /\ IF raw_data_file.ok /\ location_mapping_file.ok
       THEN /\ raw_data' = ReadCsv(raw_data_file)
            /\ location_data' = ReadCsv(location_mapping_file)
            /\ pc' = "validate"
            /\ UNCHANGED result
       ELSE /\ result' = ReturnNone
            /\ pc' = "render"
            /\ UNCHANGED <<raw_data, location_data>>
    /\ UNCHANGED <<args, long_data, merged_data, xyna_records, successfully_matched,
                   missing_locations, combined_for_minmax, final_output, ui>>

\* df.columns = df.columns.str.strip()
StripColumns(df) ==
    LET old(s) == CHOOSE c \in df.columns : Strip(c) = s
        cols == {Strip(c) : c \in df.columns}
    IN Frame(cols, [i \in 1..Len(df.rows) |-> [s \in cols |-> df.rows[i][old(s)]]])

Missing(required, df) == SelectSeq(required, LAMBDA col : col \notin df.columns)

\* MissingMapping looking for the key column only
MissingMapping_KeyOnly(df) == Missing(<<"Mercer Location Concatenation">>, df)

\* line 39
MissingMapping(df) == Missing(required_cols_mapping, df)

\* Step 2, lines 32-49
Validate ==
    /\ pc = "validate"
    /\ LET missing_raw == Missing(required_cols_raw, raw_data)
           missing_mapping == MissingMapping(location_data)
       IN IF missing_mapping # <<>>
          THEN /\ result' = ReturnNone
               /\ pc' = "render"
               /\ UNCHANGED <<raw_data, location_data>>
          ELSE /\ raw_data' = StripColumns(raw_data)
               /\ location_data' = StripColumns(location_data)
               /\ pc' = "expand"
               /\ UNCHANGED result
    /\ UNCHANGED <<args, long_data, merged_data, xyna_records, successfully_matched,
                   missing_locations, combined_for_minmax, final_output, ui>>

\* ExpandOne with the cost read from the first row of the frame
ExpandOne_FirstRow(df, family_status, source_col) ==
    [i \in 1..Len(df.rows) |->
        [c \in Range(id_vars) \cup {"family_status", "cost", "_row"} |->
            CASE c = "family_status" -> family_status
              [] c = "cost" -> df.rows[1][source_col]
              [] c = "_row" -> i
              [] OTHER -> df.rows[i][c]]]

\* the frames of lines 75-79 for one entry of family_status_mapping
ExpandOne(df, family_status, source_col) ==
    [i \in 1..Len(df.rows) |->
        [c \in Range(id_vars) \cup {"family_status", "cost", "_row"} |->
            CASE c = "family_status" -> family_status
              [] c = "cost" -> df.rows[i][source_col]
              [] c = "_row" -> i
              [] OTHER -> df.rows[i][c]]]

\* PresentEntries with the test made on the family status, not its source column
PresentEntries_ByKey(df) == SelectSeq(family_status_mapping, LAMBDA e : e[1] \in df.columns)

\* the entries of family_status_mapping that pass the test of line 74
PresentEntries(df) == SelectSeq(family_status_mapping, LAMBDA e : e[2] \in df.columns)

\* pd.concat(long_data_list, ignore_index=True); _idx is the new index (from 1)
ConcatLong(df) ==
    LET entries == PresentEntries(df)
        rows == Flatten([k \in 1..Len(entries) |-> ExpandOne(df, entries[k][1], entries[k][2])])
    IN [i \in 1..Len(rows) |-> With(rows[i], "_idx", i)]

\* Step 3, lines 51-83
Expand ==
    /\ pc = "expand"
    /\ IF PresentEntries(raw_data) = <<>>
       THEN \* pd.concat of an empty list
            /\ result' = Raised("ValueError")
            /\ pc' = "render"
            /\ UNCHANGED long_data
       ELSE IF ~(Range(id_vars) \subseteq raw_data.columns)
       THEN \* raw_data[id_vars + [source_col]] with an id column absent
            /\ result' = Raised("KeyError")
            /\ pc' = "render"
            /\ UNCHANGED long_data
       ELSE /\ long_data' = ConcatLong(raw_data)
            /\ pc' = "keys"
            /\ UNCHANGED result
    /\ UNCHANGED <<args, raw_data, location_data, merged_data, xyna_records,
                   successfully_matched, missing_locations, combined_for_minmax,
                   final_output, ui>>

\* Series.fillna(value)
FillNa(v, value) == IF v = NULL THEN value ELSE v

\* Country + region_clean: NaN if either side is NaN
Concatenate(a, b) == IF a = NULL \/ b = NULL THEN NULL ELSE a \o b

LocationKey(r) == Concatenate(r["Country"], FillNa(r["region"], "NA"))

\* Steps 4 and the flag of step 5, lines 85-94
CreateKeys ==
    /\ pc = "keys"
    /\ long_data' =
         [i \in 1..Len(long_data) |->
            LET r == long_data[i]
                a == With(r, "region_clean", FillNa(r["region"], "NA"))
                b == With(a, "location_key", LocationKey(r))
            IN With(b, "is_XYNA", b["location_key"] = "XYNA")]
    /\ pc' = "merge"
    /\ UNCHANGED <<args, raw_data, location_data, merged_data, xyna_records,
                   successfully_matched, missing_locations, combined_for_minmax,
                   final_output, result, ui>>

\* the rows a left row yields in a left join on location_key: one per right
\* row with an equal key, in the right frame's order, or one with NaN cells
JoinOne(l, right) ==
    LET hits == SelectSeq(right, LAMBDA m : m["Mercer Location Concatenation"] = l["location_key"])
        add(m) == [c \in DOMAIN l \cup Range(required_cols_mapping) |->
                      IF c \in DOMAIN l THEN l[c] ELSE m[c]]
    IN IF hits = <<>>
       THEN <<add([c \in Range(required_cols_mapping) |-> NULL])>>
       ELSE [k \in 1..Len(hits) |-> add(hits[k])]

\* pd.merge(left, right[...], left_on, right_on, how='left')
LeftJoin(left, right) == Flatten([i \in 1..Len(left) |-> JoinOne(left[i], right)])

\* Step 5, lines 96-101
Merge ==
    /\ pc = "merge"
    /\ merged_data' = LeftJoin(long_data, location_data.rows)
    /\ pc' = "partition"
    /\ UNCHANGED <<args, raw_data, location_data, long_data, xyna_records,
                   successfully_matched, missing_locations, combined_for_minmax,
                   final_output, result, ui>>

NotNa(v) == v # NULL

xyna_mask(df) == {i \in 1..Len(df) : df[i]["is_XYNA"] = TRUE}
matched_mask(df) == {i \in 1..Len(df) : NotNa(df[i]["location_uuid"])}
\* missing_mask without the exclusion of the XYNA rows
missing_mask_KeepXyna(df) == {i \in 1..Len(df) : ~NotNa(df[i]["location_uuid"])}

missing_mask(df) == {i \in 1..Len(df) : ~NotNa(df[i]["location_uuid"])} \ xyna_mask(df)

\* Step 6, lines 103-118
Partition ==
    /\ pc = "partition"
    /\ xyna_records' = Masked(merged_data, xyna_mask(merged_data))
    /\ successfully_matched' = Masked(merged_data, matched_mask(merged_data))
    /\ missing_locations' = Masked(merged_data, missing_mask(merged_data))
    /\ pc' = "trim"
    /\ UNCHANGED <<args, raw_data, location_data, long_data, merged_data,
                   combined_for_minmax, final_output, result, ui>>

\* Series.round(2) of an amount in thousandths: the amount in hundredths,
\* halves to the even neighbour
Round2(v) ==
    IF v = NaN THEN NaN
    ELSE LET q == v \div 10
             r == v % 10
         IN IF r < 5 THEN q
            ELSE IF r > 5 THEN q + 1
            ELSE IF q % 2 = 0 THEN q ELSE q + 1

\* line 128
GroupKey(r) == FillNa(r["location_uuid"], "BLANK_UUID")

\* positions of the rows of one group
GroupOf(df, key) == {i \in 1..Len(df) : GroupKey(df[i]) = key}

\* the rounded values of a column in a group, NaN skipped as groupby().agg does
GroupValues(df, key, col) == {Round2(df[i][col]) : i \in GroupOf(df, key)} \ {NaN}

Min(S) == IF S = {} THEN NaN ELSE CHOOSE x \in S : \A y \in S : x <= y
Max(S) == IF S = {} THEN NaN ELSE CHOOSE x \in S : \A y \in S : x >= y

\* agg 'count': the rows of the group whose value is not NaN
GroupCount(df, key, col) ==
    Cardinality({i \in GroupOf(df, key) : df[i][col] # NaN})

\* lines 152-153
min_mask(df) ==
    {i \in 1..Len(df) :
        /\ Round2(df[i]["GrossFrom"]) # NaN
        /\ Round2(df[i]["GrossFrom"]) = Min(GroupValues(df, GroupKey(df[i]), "GrossFrom"))
        /\ GroupCount(df, GroupKey(df[i]), "GrossFrom") > 1}

\* lines 158-159
max_mask(df) ==
    {i \in 1..Len(df) :
        /\ Round2(df[i]["GrossTo"]) # NaN
        /\ Round2(df[i]["GrossTo"]) = Max(GroupValues(df, GroupKey(df[i]), "GrossTo"))
        /\ GroupCount(df, GroupKey(df[i]), "GrossTo") > 1}

\* df.loc[mask, col] = value
SetWhere(df, mask, col, value) ==
    [i \in 1..Len(df) |-> IF i \in mask THEN With(df[i], col, value) ELSE df[i]]

\* lines 124-168: the combined frame after both removals
RemoveMinMax(matched, xyna) ==
    LET combined == matched \o xyna
    IN SetWhere(SetWhere(combined, min_mask(combined), "GrossFrom", NaN),
                max_mask(combined), "GrossTo", NaN)

\* Step 7, lines 120-174
Trim ==
    /\ pc = "trim"
    /\ IF options.remove_min_max /\ (Len(successfully_matched) > 0 \/ Len(xyna_records) > 0)
       THEN LET trimmed == RemoveMinMax(successfully_matched, xyna_records)
            IN /\ combined_for_minmax' = trimmed
               /\ successfully_matched' = SelectSeq(trimmed, LAMBDA r : r["is_XYNA"] = FALSE)
               /\ xyna_records' = SelectSeq(trimmed, LAMBDA r : r["is_XYNA"] = TRUE)
       ELSE UNCHANGED <<combined_for_minmax, successfully_matched, xyna_records>>
    /\ pc' = "finalize"
    /\ UNCHANGED <<args, raw_data, location_data, long_data, merged_data,
                   missing_locations, final_output, result, ui>>

\* line 186
MaritalStatus(family_status) ==
    StrUpper(SubSeq(family_status, 1, Len(family_status) - TrailingDigits(family_status)))

\* extract_children_count with an empty count when there is no digit
extract_children_count_BlankNone(family_status) ==
    LET n == TrailingDigits(family_status)
    IN IF n > 0 THEN SubSeq(family_status, Len(family_status) - n + 1, Len(family_status))
       ELSE ""

\* lines 189-192
extract_children_count(family_status) ==
    LET n == TrailingDigits(family_status)
    IN IF n > 0 THEN SubSeq(family_status, Len(family_status) - n + 1, Len(family_status))
       ELSE "0"

\* str() of a cell
StrOf(v) == IF v = NULL THEN "nan" ELSE v

\* format_user_notes hyphenating only keys longer than two characters
format_user_notes_LongOnly(location_key) ==
    IF location_key = "XYNA" THEN "MercerLocation: GEC"
    ELSE IF Len(StrOf(location_key)) > 2
    THEN "MercerLocation: " \o SubSeq(StrOf(location_key), 1, 2) \o "-"
             \o SubSeq(StrOf(location_key), 3, Len(StrOf(location_key)))
    ELSE "MercerLocation: " \o StrOf(location_key)

\* lines 205-212
format_user_notes(location_key) ==
    IF location_key = "XYNA" THEN "MercerLocation: GEC"
    ELSE IF Len(StrOf(location_key)) >= 2
    THEN "MercerLocation: " \o SubSeq(StrOf(location_key), 1, 2) \o "-"
             \o SubSeq(StrOf(location_key), 3, Len(StrOf(location_key)))
    ELSE "MercerLocation: " \o StrOf(location_key)

\* truth value of an optional string argument
TruthyStr(v) == v # NULL /\ v # ""
\* truth value of an optional int argument
TruthyInt(v) == v # NoneInt /\ v # 0

\* DeriveRow with the exception overrides applied only to rows the join left
\* without a location
DeriveRow_UnmatchedOnly(r, o) ==
    LET x == r["is_XYNA"] = TRUE /\ r["location_uuid"] = NULL
    IN [c \in DOMAIN r \cup {"maritalStatus", "numberOfChildren", "serviceType",
                             "userNotes", "validFromDate", "validToDate"} |->
          CASE c = "maritalStatus" -> MaritalStatus(r["family_status"])
            [] c = "numberOfChildren" -> extract_children_count(r["family_status"])
            [] c = "location_uuid" -> IF x THEN "" ELSE r[c]
            [] c = "location_type" -> IF x THEN "WORLD" ELSE r[c]
            [] c = "serviceType" -> IF x THEN "GEC_POLICY" ELSE ""
            [] c = "userNotes" -> format_user_notes(r["location_key"])
            [] c = "validFromDate" ->
                 IF TruthyStr(o.valid_from_date) THEN o.valid_from_date ELSE ""
            [] c = "validToDate" ->
                 IF TruthyStr(o.valid_to_date) THEN o.valid_to_date ELSE ""
            [] OTHER -> r[c]]

\* lines 186-225 for one row
DeriveRow(r, o) ==
    LET x == r["is_XYNA"] = TRUE
    IN [c \in DOMAIN r \cup {"maritalStatus", "numberOfChildren", "serviceType",
                             "userNotes", "validFromDate", "validToDate"} |->
          CASE c = "maritalStatus" -> MaritalStatus(r["family_status"])
            [] c = "numberOfChildren" -> extract_children_count(r["family_status"])
            [] c = "location_uuid" -> IF x THEN "" ELSE r[c]
            [] c = "location_type" -> IF x THEN "WORLD" ELSE r[c]
            [] c = "serviceType" -> IF x THEN "GEC_POLICY" ELSE ""
            [] c = "userNotes" -> format_user_notes(r["location_key"])
            [] c = "validFromDate" ->
                 IF TruthyStr(o.valid_from_date) THEN o.valid_from_date ELSE ""
            [] c = "validToDate" ->
                 IF TruthyStr(o.valid_to_date) THEN o.valid_to_date ELSE ""
            [] OTHER -> r[c]]

\* Step 8, lines 176-225
Finalize ==
    /\ pc = "finalize"
    /\ LET final_base == successfully_matched \o xyna_records
       IN IF Len(final_base) > 0
          THEN /\ final_output' = [i \in 1..Len(final_base) |-> DeriveRow(final_base[i], options)]
               /\ pc' = "collapse"
          ELSE /\ final_output' = <<>>
               /\ pc' = "output"
    /\ UNCHANGED <<args, raw_data, location_data, long_data, merged_data, xyna_records,
                   successfully_matched, missing_locations, combined_for_minmax, result, ui>>

\* BlankMax without the test of the marital status
BlankMax_AnyStatus(df, status, max_children) ==
    IF TruthyInt(max_children) /\ Strip(Str(max_children)) # ""
    THEN SetWhere(df,
                  {i \in 1..Len(df) : df[i]["numberOfChildren"] = Strip(Str(max_children))},
                  "numberOfChildren", "")
    ELSE df

\* lines 232-239 and 241-248: blank the count of the rows of one marital status
BlankMax(df, status, max_children) ==
    IF TruthyInt(max_children) /\ Strip(Str(max_children)) # ""
    THEN SetWhere(df,
                  {i \in 1..Len(df) : /\ df[i]["maritalStatus"] = status
                                      /\ df[i]["numberOfChildren"] = Strip(Str(max_children))},
                  "numberOfChildren", "")
    ELSE df

\* lines 228-248
AdjustMaxChildren(df, o) ==
    IF TruthyInt(o.single_max_children) \/ TruthyInt(o.married_max_children)
    THEN BlankMax(BlankMax(df, "SINGLE", o.single_max_children),
                  "MARRIED", o.married_max_children)
    ELSE df

\* Step 8.5, lines 227-248
Collapse ==
    /\ pc = "collapse"
    /\ final_output' = AdjustMaxChildren(final_output, options)
    /\ pc' = "output"
    /\ UNCHANGED <<args, raw_data, location_data, long_data, merged_data, xyna_records,
                   successfully_matched, missing_locations, combined_for_minmax, result, ui>>

\* a < b on one sort key, NaN placed by na_position
CellLess(a, b, na_first) ==
    IF a = NULL THEN b # NULL /\ na_first
    ELSE IF b = NULL THEN ~na_first
    ELSE StrLess(a, b)

RECURSIVE RowLess(_, _, _, _)
\* a before b on the sort keys, the first key that differs deciding
RowLess(a, b, by, na_first) ==
    IF by = <<>> THEN FALSE
    ELSE IF a[Head(by)] = b[Head(by)] THEN RowLess(a, b, Tail(by), na_first)
    ELSE CellLess(a[Head(by)], b[Head(by)], na_first)

RECURSIVE SortValues_TiesReversed(_, _, _)
\* SortValues placing a row before the rows with equal keys
SortValues_TiesReversed(df, by, na_first) ==
    IF Len(df) <= 1 THEN df
    ELSE LET r == df[Len(df)]
             sorted == SortValues_TiesReversed(SubSeq(df, 1, Len(df) - 1), by, na_first)
             p == Cardinality({i \in 1..Len(sorted) : RowLess(sorted[i], r, by, na_first)})
         IN SubSeq(sorted, 1, p) \o <<r>> \o SubSeq(sorted, p + 1, Len(sorted))

RECURSIVE SortValues(_, _, _)
\* df.sort_values(by, na_position): stable, rows with equal keys keep their order
SortValues(df, by, na_first) ==
    IF Len(df) <= 1 THEN df
    ELSE LET r == df[Len(df)]
             sorted == SortValues(SubSeq(df, 1, Len(df) - 1), by, na_first)
             p == Cardinality({i \in 1..Len(sorted) : ~RowLess(r, sorted[i], by, na_first)})
         IN SubSeq(sorted, 1, p) \o <<r>> \o SubSeq(sorted, p + 1, Len(sorted))

\* lines 251-257
Renamed(c) ==
    CASE c = "grossFrom" -> "GrossFrom"
      [] c = "grossTo" -> "GrossTo"
      [] c = "currency" -> "Currency"
      [] c = "locationUuid" -> "location_uuid"
      [] c = "locationType" -> "location_type"
      [] OTHER -> c

\* lines 250-264: rename, select (the index _idx rides along), sort
FinalTable(df) ==
    LET selected == [i \in 1..Len(df) |->
                        [c \in Range(final_columns) \cup {"_idx"} |-> df[i][Renamed(c)]]]
    IN Table(final_columns,
             SortValues(selected, <<"locationUuid", "maritalStatus", "numberOfChildren">>, TRUE))

\* lines 273-278
MissingTable(df) ==
    LET selected == [i \in 1..Len(df) |-> Project(df[i], Range(missing_columns) \cup {"_idx"})]
    IN Table(missing_columns, SortValues(selected, <<"Country", "region", "family_status">>, FALSE))

\* lines 250-306
Output ==
    /\ pc = "output"
    /\ result' = Return(IF Len(missing_locations) > 0 THEN MissingTable(missing_locations)
                        ELSE Table(missing_columns, <<>>),
                        IF Len(final_output) > 0 THEN FinalTable(final_output)
                        ELSE Table(final_columns, <<>>))
    /\ pc' = "render"
    /\ UNCHANGED <<args, raw_data, location_data, long_data, merged_data, xyna_records,
                   successfully_matched, missing_locations, combined_for_minmax,
                   final_output, ui>>

\* the caller, multi-workflow-app.py lines 143-161
Render ==
    /\ pc = "render"
    /\ ui' = IF result.kind = "raised" THEN "error"
             ELSE IF ~result.missing_output.none /\ ~result.final_output.none THEN "results"
             ELSE "failed"
    /\ pc' = "done"
    /\ UNCHANGED <<args, raw_data, location_data, long_data, merged_data, xyna_records,
                   successfully_matched, missing_locations, combined_for_minmax,
                   final_output, result>>

Next ==
    \/ LoadFiles \/ Validate \/ Expand \/ CreateKeys \/ Merge \/ Partition
    \/ Trim \/ Finalize \/ Collapse \/ Output \/ Render

Spec == Init /\ [][Next]_vars

\* ===================================================================== claims
\* the call returned its two tables
ReturnedTables ==
    /\ result.kind = "returned"
    /\ ~result.final_output.none
    /\ ~result.missing_output.none

\* step 3 has produced long_data
Expanded ==
    \/ pc \in {"keys", "merge", "partition", "trim", "finalize", "collapse", "output"}
    \/ pc \in {"render", "done"} /\ ReturnedTables

\* step 4 has added location_key
Keyed == Expanded /\ pc # "keys"

\* step 5 has produced merged_data
Joined == Keyed /\ pc # "merge"

\* step 6 has split merged_data
Partitioned == Joined /\ pc # "partition"

\* the alias table of the specification, section 4.2
AliasTable ==
    {<<"Single", "Single">>, <<"Single1", "Married">>, <<"Single2", "Married1">>,
     <<"Single3", "Married2">>, <<"Single4", "Married3">>, <<"Single5", "Married4">>,
     <<"Married", "Married">>, <<"Married1", "Married1">>, <<"Married2", "Married2">>,
     <<"Married3", "Married3">>, <<"Married4", "Married4">>, <<"Married5", "Married5">>}

\* C1: the three partitions count every expanded record exactly once, so the
\* rows of the final output plus the rows of the missing output number the
\* expanded records.
C1_PartitionCounts ==
    /\ Partitioned /\ pc \in {"trim", "finalize"} =>
          Len(successfully_matched) + Len(xyna_records) + Len(missing_locations)
              = Len(long_data)
    /\ pc = "done" /\ ReturnedTables =>
          Len(result.final_output.rows) + Len(result.missing_output.rows) = Len(long_data)

\* C2: a final row from an expanded record with key 'XYNA' has LocationId "",
\* LocationType "WORLD", ServiceType "GEC_POLICY" and UserNotes
\* "MercerLocation: GEC"; any other final row has ServiceType "".
C2_ExceptionRows ==
    pc = "done" /\ ReturnedTables =>
        \A i \in 1..Len(result.final_output.rows) :
            LET r == result.final_output.rows[i]
            IN IF long_data[r["_idx"]]["location_key"] = "XYNA"
               THEN /\ r["locationUuid"] = ""
                    /\ r["locationType"] = "WORLD"
                    /\ r["serviceType"] = "GEC_POLICY"
                    /\ r["userNotes"] = "MercerLocation: GEC"
               ELSE r["serviceType"] = ""

\* a run with trimming whose mapping table has a row for 'XYNA', ending with
\* an exception row and an ordinary row in the final output
C2_Witness ==
    /\ pc = "done" /\ ReturnedTables
    /\ options.remove_min_max
    /\ \E m \in Range(location_data.rows) : m["Mercer Location Concatenation"] = "XYNA"
    /\ \E i, j \in 1..Len(result.final_output.rows) :
          /\ long_data[result.final_output.rows[i]["_idx"]]["location_key"] = "XYNA"
          /\ long_data[result.final_output.rows[j]["_idx"]]["location_key"] # "XYNA"

\* the expanded records made from raw row i
RecordsOf(i) == {j \in 1..Len(long_data) : long_data[j]["_row"] = i}

\* C3 as stated: every FamilyStatus is one of the listed categories, one raw
\* row gives at most 11 expanded records, and a category appears (the raw
\* table having a row) iff its source column exists.
C3_AtMostEleven ==
    Expanded =>
        /\ \A j \in 1..Len(long_data) :
              long_data[j]["family_status"] \in {a[1] : a \in AliasTable}
        /\ \A i \in 1..Len(raw_data.rows) : Cardinality(RecordsOf(i)) <= 11
        /\ Len(raw_data.rows) > 0 =>
              \A a \in AliasTable :
                  (\E j \in 1..Len(long_data) : long_data[j]["family_status"] = a[1])
                      <=> a[2] \in raw_data.columns

\* C3 amended: the categories are 12 and one raw row gives at most 12
\* expanded records; in an expansion of a raw table with at least one row a
\* category appears iff its source column is among the (trimmed) column names.
C3_TwelveCategories ==
    Expanded =>
        /\ Cardinality(AliasTable) = 12
        /\ \A j \in 1..Len(long_data) :
              long_data[j]["family_status"] \in {a[1] : a \in AliasTable}
        /\ \A i \in 1..Len(raw_data.rows) : Cardinality(RecordsOf(i)) <= 12
        /\ Len(raw_data.rows) > 0 =>
              \A a \in AliasTable :
                  (\E j \in 1..Len(long_data) : long_data[j]["family_status"] = a[1])
                      <=> a[2] \in raw_data.columns

\* an expansion in which Married is absent (no Single1, no Married) while
\* Single is present
C3_Witness ==
    /\ Expanded
    /\ Len(raw_data.rows) > 0
    /\ "Married" \notin raw_data.columns
    /\ "Single" \in raw_data.columns
    /\ \E j \in 1..Len(long_data) : long_data[j]["family_status"] = "Single2"
    /\ \A j \in 1..Len(long_data) : long_data[j]["family_status"] \notin {"Single1", "Married"}

\* C4: for every raw row and every alias entry whose source column exists
\* there is exactly one expanded record with that FamilyStatus from that
\* row; its Cost is the row's value in the source column and its id fields
\* are the row's.
C4_CostFromAlias ==
    Expanded =>
        \A i \in 1..Len(raw_data.rows) : \A a \in AliasTable :
            a[2] \in raw_data.columns =>
                /\ Cardinality({j \in RecordsOf(i) : long_data[j]["family_status"] = a[1]}) = 1
                /\ \A j \in RecordsOf(i) :
                      long_data[j]["family_status"] = a[1] =>
                          /\ long_data[j]["cost"] = raw_data.rows[i][a[2]]
                          /\ \A c \in {"Country", "region", "Currency", "GrossFrom", "GrossTo"} :
                                long_data[j][c] = raw_data.rows[i][c]

\* two raw rows with different costs, all columns present: Single5 of the
\* second row carries that row's Married4
C4_Witness ==
    /\ Expanded
    /\ Len(raw_data.rows) = 2
    /\ raw_data.columns = Range(required_cols_raw)
    /\ raw_data.rows[1]["Married4"] # raw_data.rows[2]["Married4"]
    /\ \E j \in RecordsOf(2) :
          /\ long_data[j]["family_status"] = "Single5"
          /\ long_data[j]["cost"] = raw_data.rows[2]["Married4"]

\* the first row of the mapping table whose source key is the given key
FirstMatch(key) ==
    LET hits == {k \in 1..Len(location_data.rows) :
                    location_data.rows[k]["Mercer Location Concatenation"] = key}
    IN IF hits = {} THEN 0 ELSE CHOOSE k \in hits : \A h \in hits : k <= h

\* C5: the join yields exactly one joined record per expanded record, with
\* the LocationId and LocationType of the first mapping row of that key, or
\* none when no mapping row has the key.
C5_FirstMatchWins ==
    Joined =>
        /\ Len(merged_data) = Len(long_data)
        /\ \A j \in 1..Len(long_data) :
              \A i \in 1..Len(merged_data) :
                  merged_data[i]["_idx"] = j =>
                      LET k == FirstMatch(long_data[j]["location_key"])
                      IN IF k = 0
                         THEN /\ merged_data[i]["location_uuid"] = NULL
                              /\ merged_data[i]["location_type"] = NULL
                         ELSE /\ merged_data[i]["location_uuid"]
                                    = location_data.rows[k]["location_uuid"]
                              /\ merged_data[i]["location_type"]
                                    = location_data.rows[k]["location_type"]

\* the expanded records whose rows in the trimmed frame carry the group key
RecordsInGroup(key) ==
    {combined_for_minmax[j]["_idx"] :
        j \in {k \in 1..Len(combined_for_minmax) : GroupKey(combined_for_minmax[k]) = key}}

\* step 7 ran its removal
Trimmed ==
    /\ Partitioned /\ pc # "trim"
    /\ options.remove_min_max
    /\ Len(combined_for_minmax) > 0

\* C6: with trimming on, when exactly one record of the Matched + Exception
\* union has a grouping key, that record keeps its GrossFrom and GrossTo.
C6_SingletonUntrimmed ==
    Trimmed =>
        \A i \in 1..Len(combined_for_minmax) :
            LET r == combined_for_minmax[i]
            IN Cardinality(RecordsInGroup(GroupKey(r))) = 1 =>
                  /\ r["GrossFrom"] = long_data[r["_idx"]]["GrossFrom"]
                  /\ r["GrossTo"] = long_data[r["_idx"]]["GrossTo"]

\* C7: with trimming on, in a group of more than one row (rows with a
\* missing amount counted) a GrossFrom is nulled iff its rounded value is the
\* group's minimum, a GrossTo iff its rounded value is the group's maximum,
\* and every other amount is kept.
C7_ExtremesNulled ==
    [][pc = "trim" /\ options.remove_min_max
         /\ Len(successfully_matched \o xyna_records) > 0 =>
         LET before == successfully_matched \o xyna_records
             after == combined_for_minmax'
         IN /\ Len(after) = Len(before)
            /\ \A i \in 1..Len(before) :
                  LET key == GroupKey(before[i])
                  IN Cardinality(GroupOf(before, key)) > 1 =>
                       /\ before[i]["GrossFrom"] # NaN =>
                             IF Round2(before[i]["GrossFrom"])
                                    = Min(GroupValues(before, key, "GrossFrom"))
                             THEN after[i]["GrossFrom"] = NaN
                             ELSE after[i]["GrossFrom"] = before[i]["GrossFrom"]
                       /\ before[i]["GrossTo"] # NaN =>
                             IF Round2(before[i]["GrossTo"])
                                    = Max(GroupValues(before, key, "GrossTo"))
                             THEN after[i]["GrossTo"] = NaN
                             ELSE after[i]["GrossTo"] = before[i]["GrossTo"]]_vars

\* the collapse rule of one row: its marital status, its derived count and
\* the two thresholds
Collapses(r) ==
    \/ /\ r["maritalStatus"] = "SINGLE"
       /\ options.single_max_children # NoneInt
       /\ r["numberOfChildren"] = Str(options.single_max_children)
    \/ /\ r["maritalStatus"] = "MARRIED"
       /\ options.married_max_children # NoneInt
       /\ r["numberOfChildren"] = Str(options.married_max_children)

\* C8: the collapse keeps the rows and every field but ChildrenCount, and
\* sets ChildrenCount to "" exactly on the rows whose marital status has a
\* threshold supplied that equals the derived count.
C8_CollapseFrame ==
    [][pc = "collapse" =>
         /\ Len(final_output') = Len(final_output)
         /\ \A i \in 1..Len(final_output) :
               /\ \A c \in DOMAIN final_output[i] \ {"numberOfChildren"} :
                     final_output'[i][c] = final_output[i][c]
               /\ DOMAIN final_output'[i] = DOMAIN final_output[i]
               /\ final_output[i]["numberOfChildren"] # ""
               /\ IF Collapses(final_output[i])
                  THEN final_output'[i]["numberOfChildren"] = ""
                  ELSE final_output'[i]["numberOfChildren"]
                          = final_output[i]["numberOfChildren"]]_vars

\* thresholds 3 and 5: Single3 and Married5 are blanked, Married3 is not
C8_Witness ==
    /\ pc = "output"
    /\ options.single_max_children = 3
    /\ options.married_max_children = 5
    /\ \E i, j, k \in 1..Len(final_output) :
          /\ final_output[i]["family_status"] = "Single3"
          /\ final_output[i]["numberOfChildren"] = ""
          /\ final_output[j]["family_status"] = "Married5"
          /\ final_output[j]["numberOfChildren"] = ""
          /\ final_output[k]["family_status"] = "Married3"
          /\ final_output[k]["numberOfChildren"] = "3"

\* the header of the mapping file lacks a required column
MappingLacksColumn ==
    \E c \in {"Mercer Location Concatenation", "location_uuid", "location_type"} :
        c \notin location_mapping_file.columns

\* C9: a mapping table without one of its three required columns stops the
\* run before expansion with None for both outputs, whatever the raw table
\* and the options; a return never has one output None and the other not.
C9_MappingHardFailure ==
    /\ MappingLacksColumn =>
          /\ pc \in {"load", "validate", "render", "done"}
          /\ long_data = <<>>
          /\ pc \in {"render", "done"} =>
                /\ result.kind = "returned"
                /\ result.final_output.none
                /\ result.missing_output.none
          /\ pc = "done" => ui = "failed"
    /\ result.kind = "returned" =>
          (result.final_output.none <=> result.missing_output.none)

\* both files read, the mapping header lacks location_type, the call has
\* returned None, None and the page shows the failure
C9_Witness ==
    /\ pc = "done"
    /\ raw_data_file.ok /\ location_mapping_file.ok
    /\ Len(raw_data_file.rows) > 0
    /\ "location_type" \notin location_mapping_file.columns
    /\ "location_uuid" \in location_mapping_file.columns
    /\ result.kind = "returned" /\ result.final_output.none
    /\ ui = "failed"

\* C10: with a valid mapping table, a raw table lacking any of its required
\* columns does not abort or raise: the run returns both tables.
C10_RawMissingIsSoft ==
    /\ raw_data_file.ok /\ location_mapping_file.ok
    /\ Range(required_cols_mapping) \subseteq location_mapping_file.columns
    => /\ result.kind # "raised"
       /\ pc = "done" => ReturnedTables /\ ui = "results"

\* the header of a file holds every required name once trimmed
HasAllTrimmed(file, required) == Range(required) \subseteq {Strip(c) : c \in file.columns}

\* C11: the required names are looked up among the trimmed column names, so
\* a mapping table (or raw table) whose header holds every required name,
\* padded with whitespace or not, passes validation.
C11_PaddedHeaderPasses ==
    /\ raw_data_file.ok /\ location_mapping_file.ok
    /\ HasAllTrimmed(location_mapping_file, required_cols_mapping)
    /\ HasAllTrimmed(raw_data_file, required_cols_raw)
    => /\ pc \in {"render", "done"} => ReturnedTables
       /\ pc = "done" => ui = "results"

\* expanded record j has a row in the missing output / in the final output
InMissing(j) ==
    \E i \in 1..Len(result.missing_output.rows) : result.missing_output.rows[i]["_idx"] = j
InFinal(j) ==
    \E i \in 1..Len(result.final_output.rows) : result.final_output.rows[i]["_idx"] = j

\* a mapping row has the key but no location_uuid
HasBlankUuidRow(key) ==
    \E m \in Range(location_data.rows) :
        m["Mercer Location Concatenation"] = key /\ m["location_uuid"] = NULL

\* no mapping row has the record's key, and the key is not 'XYNA'
NoMapRow(j) ==
    /\ FirstMatch(long_data[j]["location_key"]) = 0
    /\ long_data[j]["location_key"] # "XYNA"

\* every missing-output row carries the five fields of its expanded record,
\* Region being the raw table's value
MissingRowsUnchanged ==
    \A i \in 1..Len(result.missing_output.rows) :
        LET r == result.missing_output.rows[i]
            e == long_data[r["_idx"]]
        IN /\ r["Country"] = e["Country"]
           /\ r["region"] = raw_data.rows[e["_row"]]["region"]
           /\ r["location_key"] = e["location_key"]
           /\ r["family_status"] = e["family_status"]
           /\ r["cost"] = e["cost"]

\* C12 as stated: an expanded record has a row in the missing output iff no
\* mapping row has its key and the key is not 'XYNA'; such a record has no
\* row in the final output; its missing row carries its fields unchanged.
C12_MissingIffNoMapRow ==
    pc = "done" /\ ReturnedTables =>
        /\ \A j \in 1..Len(long_data) :
              /\ InMissing(j) <=> NoMapRow(j)
              /\ NoMapRow(j) => ~InFinal(j)
        /\ MissingRowsUnchanged

\* C12 amended: an expanded record has a row in the missing output iff its
\* key is not 'XYNA' and either no mapping row has the key or a mapping row
\* with the key has an empty location_uuid; the rest as stated.
C12_MissingIffNoLocationId ==
    pc = "done" /\ ReturnedTables =>
        /\ \A j \in 1..Len(long_data) :
              /\ InMissing(j) <=>
                    /\ long_data[j]["location_key"] # "XYNA"
                    /\ \/ FirstMatch(long_data[j]["location_key"]) = 0
                       \/ HasBlankUuidRow(long_data[j]["location_key"])
              /\ NoMapRow(j) => ~InFinal(j)
        /\ MissingRowsUnchanged

\* a run whose missing output has a row with a null Region from a record
\* without mapping row, beside an unmatched 'XYNA' record in the final output
C12_Witness ==
    /\ pc = "done" /\ ReturnedTables
    /\ \E i \in 1..Len(result.missing_output.rows) :
          /\ result.missing_output.rows[i]["region"] = NULL
          /\ NoMapRow(result.missing_output.rows[i]["_idx"])
    /\ \E j \in 1..Len(long_data) :
          /\ long_data[j]["location_key"] = "XYNA"
          /\ FirstMatch("XYNA") = 0
          /\ InFinal(j) /\ ~InMissing(j)

\* the sort key of a final row before and after the renaming of the columns
KeyOfWorking(r) == <<r["location_uuid"], r["maritalStatus"], r["numberOfChildren"]>>
KeyOfFinal(r) == <<r["locationUuid"], r["maritalStatus"], r["numberOfChildren"]>>

\* a <= b for strings, the empty string first
StrLeq(a, b) == a = b \/ StrLess(a, b)

\* key a is not after key b, the first component that differs deciding
KeyLeq(a, b) ==
    \/ a[1] # b[1] /\ StrLess(a[1], b[1])
    \/ a[1] = b[1] /\ a[2] # b[2] /\ StrLess(a[2], b[2])
    \/ a[1] = b[1] /\ a[2] = b[2] /\ StrLeq(a[3], b[3])

\* the record indexes of the rows with a given key, in the order of the frame
IdxWithKey(rows, key, KeyOf(_)) ==
    LET hit == SelectSeq(rows, LAMBDA r : KeyOf(r) = key)
    IN [k \in 1..Len(hit) |-> hit[k]["_idx"]]

\* C13: the final output is in ascending order of (LocationId,
\* MaritalStatus, ChildrenCount), empty keys first - exception rows before
\* matched rows, collapsed counts before the other counts of the same
\* location and marital status - and rows with equal keys keep the order
\* they had before the sort.
C13_FinalSortStable ==
    [][pc = "output" /\ Len(final_output) > 0 =>
         LET out == result'.final_output.rows
         IN /\ Len(out) = Len(final_output)
            /\ \A k \in 1..(Len(out) - 1) : KeyLeq(KeyOfFinal(out[k]), KeyOfFinal(out[k + 1]))
            /\ \A k, l \in 1..Len(out) :
                  k < l =>
                     /\ out[l]["locationUuid"] = "" => out[k]["locationUuid"] = ""
                     /\ /\ out[l]["numberOfChildren"] = ""
                        /\ out[k]["locationUuid"] = out[l]["locationUuid"]
                        /\ out[k]["maritalStatus"] = out[l]["maritalStatus"]
                        => out[k]["numberOfChildren"] = ""
            /\ \A i \in 1..Len(final_output) :
                  IdxWithKey(out, KeyOfWorking(final_output[i]), KeyOfFinal)
                      = IdxWithKey(final_output, KeyOfWorking(final_output[i]), KeyOfWorking)]_vars

\* a returned final output that the sort had to reorder (its first row was
\* not first before) and in which two different records share a key
C13_Witness ==
    /\ pc = "render" /\ ReturnedTables
    /\ Len(final_output) > 1
    /\ result.final_output.rows[1]["_idx"] # final_output[1]["_idx"]
    /\ \E i, j \in 1..Len(final_output) :
          /\ final_output[i]["_idx"] # final_output[j]["_idx"]
          /\ KeyOfWorking(final_output[i]) = KeyOfWorking(final_output[j])

\* the UserNotes the specification gives for a location key
NotesFor(key) ==
    IF key = "XYNA" THEN "MercerLocation: GEC"
    ELSE IF Len(key) >= 2
    THEN "MercerLocation: " \o SubSeq(key, 1, 2) \o "-" \o SubSeq(key, 3, Len(key))
    ELSE "MercerLocation: " \o key

\* C14: the UserNotes of a final row follow from its LocationKey alone:
\* the GEC note for 'XYNA', else the key hyphenated after two characters (a
\* key of two characters ends in the hyphen), else - a key of one
\* character - the key as it is.
C14_UserNotes ==
    /\ pc = "done" /\ ReturnedTables =>
          \A i \in 1..Len(result.final_output.rows) :
              LET r == result.final_output.rows[i]
              IN r["userNotes"] = NotesFor(long_data[r["_idx"]]["location_key"])
    /\ format_user_notes("U") = "MercerLocation: U"
    /\ format_user_notes("US") = "MercerLocation: US-"
    /\ format_user_notes("USNA") = "MercerLocation: US-NA"
    /\ format_user_notes("XYNA") = "MercerLocation: GEC"

\* a final row whose key has exactly two characters, with the trailing hyphen
C14_Witness ==
    /\ pc = "done" /\ ReturnedTables
    /\ \E i \in 1..Len(result.final_output.rows) :
          /\ long_data[result.final_output.rows[i]["_idx"]]["location_key"] = "US"
          /\ result.final_output.rows[i]["userNotes"] = "MercerLocation: US-"

\* no row can survive expansion or matching: a table without data rows, or
\* a raw table without any value column to expand
NothingToExpand ==
    \/ raw_data_file.rows = <<>>
    \/ \A k \in 1..Len(family_status_mapping) :
          family_status_mapping[k][2] \notin {Strip(c) : c \in raw_data_file.columns}
NothingToMatch == location_mapping_file.rows = <<>>

\* C15: with readable files, a complete mapping header and the five
\* identifying columns, an input from which no row survives expansion or
\* matching neither raises nor fails: both tables are returned with their
\* columns in order, and the final table is empty when nothing was expanded.
C15_EmptyIsNotAnError ==
    /\ raw_data_file.ok /\ location_mapping_file.ok
    /\ Range(required_cols_mapping) \subseteq location_mapping_file.columns
    /\ IdCols \subseteq raw_data_file.columns
    /\ NothingToExpand \/ NothingToMatch
    => /\ result.kind # "raised"
       /\ pc = "done" =>
             /\ ReturnedTables /\ ui = "results"
             /\ result.final_output.columns = final_columns
             /\ result.missing_output.columns = missing_columns
             /\ NothingToExpand =>
                   result.final_output.rows = <<>> /\ result.missing_output.rows = <<>>

\* the same for inputs that carry every required column: tables without data rows
C15_EmptyTablesReturned ==
    /\ raw_data_file.ok /\ location_mapping_file.ok
    /\ Range(required_cols_mapping) \subseteq location_mapping_file.columns
    /\ Range(required_cols_raw) \subseteq raw_data_file.columns
    /\ raw_data_file.rows = <<>> \/ NothingToMatch
    => /\ result.kind # "raised"
       /\ pc = "done" =>
             /\ ReturnedTables /\ ui = "results"
             /\ result.final_output.columns = final_columns
             /\ result.missing_output.columns = missing_columns
             /\ raw_data_file.rows = <<>> =>
                   result.final_output.rows = <<>> /\ result.missing_output.rows = <<>>

\* the marital status and the count that the specification derives from each
\* family status
DerivedStatus ==
    [fs \in {family_status_mapping[k][1] : k \in 1..Len(family_status_mapping)} |->
        CASE fs = "Single" -> <<"SINGLE", "0">>
          [] fs = "Single1" -> <<"SINGLE", "1">>
          [] fs = "Single2" -> <<"SINGLE", "2">>
          [] fs = "Single3" -> <<"SINGLE", "3">>
          [] fs = "Single4" -> <<"SINGLE", "4">>
          [] fs = "Single5" -> <<"SINGLE", "5">>
          [] fs = "Married" -> <<"MARRIED", "0">>
          [] fs = "Married1" -> <<"MARRIED", "1">>
          [] fs = "Married2" -> <<"MARRIED", "2">>
          [] fs = "Married3" -> <<"MARRIED", "3">>
          [] fs = "Married4" -> <<"MARRIED", "4">>
          [] OTHER -> <<"MARRIED", "5">>]

\* the threshold supplied for a marital status equals the count
CollapseApplies(marital, count) ==
    \/ marital = "SINGLE" /\ options.single_max_children # NoneInt
       /\ count = Str(options.single_max_children)
    \/ marital = "MARRIED" /\ options.married_max_children # NoneInt
       /\ count = Str(options.married_max_children)

\* C16: every final row's maritalStatus is SINGLE or MARRIED, the family
\* status without its trailing digits in upper case; its numberOfChildren
\* is the trailing digits ('0' when there are none) or '', and '' only when
\* the threshold of its marital status equals that count.
C16_DerivedFields ==
    pc = "done" /\ ReturnedTables =>
        \A i \in 1..Len(result.final_output.rows) :
            LET r == result.final_output.rows[i]
                d == DerivedStatus[long_data[r["_idx"]]["family_status"]]
            IN /\ r["maritalStatus"] \in {"SINGLE", "MARRIED"}
               /\ r["maritalStatus"] = d[1]
               /\ r["numberOfChildren"] \in {d[2], ""}
               /\ r["numberOfChildren"] = "" => CollapseApplies(d[1], d[2])

\* thresholds 3 and 5 given: Single3 is blanked, Single and Married keep '0',
\* Married3 keeps '3'
C16_Witness ==
    /\ pc = "done" /\ ReturnedTables
    /\ options.single_max_children = 3
    /\ \E i, j, k, l \in 1..Len(result.final_output.rows) :
          LET rows == result.final_output.rows
              fs(n) == long_data[rows[n]["_idx"]]["family_status"]
          IN /\ fs(i) = "Single3" /\ rows[i]["numberOfChildren"] = ""
                /\ rows[i]["maritalStatus"] = "SINGLE"
             /\ fs(j) = "Single" /\ rows[j]["numberOfChildren"] = "0"
             /\ fs(k) = "Married" /\ rows[k]["numberOfChildren"] = "0"
                /\ rows[k]["maritalStatus"] = "MARRIED"
             /\ fs(l) = "Married3" /\ rows[l]["numberOfChildren"] = "3"

\* row b is row a, its GrossFrom and GrossTo each kept or nulled
SameButGross(a, b) ==
    /\ DOMAIN b = DOMAIN a
    /\ \A c \in DOMAIN a \ {"GrossFrom", "GrossTo"} : b[c] = a[c]
    /\ b["GrossFrom"] \in {a["GrossFrom"], NaN}
    /\ b["GrossTo"] \in {a["GrossTo"], NaN}

\* table t is table s row for row, only GrossFrom and GrossTo possibly nulled
SameRowsButGross(s, t) ==
    /\ Len(t) = Len(s)
    /\ \A i \in 1..Len(s) : SameButGross(s[i], t[i])

\* C17: step 7 keeps each of the Matched and Exception partitions row for
\* row - no row added, dropped, duplicated or moved to the other partition -
\* changing nothing but GrossFrom and GrossTo, each kept or nulled; it leaves
\* the Unmatched partition alone, and with the flag false it changes nothing.
C17_TrimmerFrame ==
    [][pc = "trim" =>
         /\ SameRowsButGross(successfully_matched, successfully_matched')
         /\ SameRowsButGross(xyna_records, xyna_records')
         /\ missing_locations' = missing_locations
         /\ ~options.remove_min_max =>
               /\ successfully_matched' = successfully_matched
               /\ xyna_records' = xyna_records]_vars

\* the rows of a table that are flagged is_XYNA / that are not
Flagged(df, flag) == SelectSeq(df, LAMBDA r : r["is_XYNA"] = flag)

\* the same over the union that is finalized: the flagged rows and the other
\* rows of Matched + Exception are kept in order, only GrossFrom and GrossTo
\* possibly nulled
C17_UnionKept ==
    [][pc = "trim" =>
         LET before == successfully_matched \o xyna_records
             after == successfully_matched' \o xyna_records'
         IN /\ SameRowsButGross(Flagged(before, TRUE), Flagged(after, TRUE))
            /\ SameRowsButGross(Flagged(before, FALSE), Flagged(after, FALSE))
            /\ missing_locations' = missing_locations
            /\ ~options.remove_min_max => after = before]_vars
====
